---- MODULE Spec2Model ----
(***************************************************************************)
(* Model of finance.c: the in-memory transaction, category and budget      *)
(* stores, their CRUD handlers, the monthly aggregation, the CSV           *)
(* transcoder and the binary persistence of the three stores.              *)
(*                                                                         *)
(* Text is modelled as a sequence of character codes (ASCII), so that      *)
(* strcmp, strcasecmp, strtok, atoi, atof, sscanf and printf formatting    *)
(* are computed on characters as the C library computes them.              *)
(* Amounts (C double) are modelled as exact integers counted in            *)
(* thousandths (mills): 42.50 is 42500.                                    *)
(***************************************************************************)
EXTENDS Integers, Sequences, FiniteSets, TLC

VARIABLES
    txns, cats, budgets,        \* the three stores in memory
    obfuscate_enabled, obf_key, \* the XOR obfuscation of the files
    disk,                       \* the files of the data directory
    pc,                         \* "menu": in interactive_menu; "exited": main returned
    msg,                        \* the last status line printed
    first_ids,                  \* history: the first id each store ever held (0: none yet)
    exported                    \* history: the stores as export_csv last saw them

vars == <<txns, cats, budgets, obfuscate_enabled, obf_key, disk, pc, msg, first_ids,
          exported>>

(***************************************************************************)
(* Bounds of the model.                                                    *)
(***************************************************************************)
MaxTxns == 2
MaxCats == 2
MaxBudgets == 2
MaxId == 3

(***************************************************************************)
(* Program constants.                                                      *)
(***************************************************************************)
DATE_STRLEN == 11
MAX_NOTE == 256
NAME_LEN == 64

(***************************************************************************)
(* Characters and C string helpers.                                        *)
(***************************************************************************)
IsDigit(c) == c >= 48 /\ c <= 57

\* isspace of the "C" locale: space, \t \n \v \f \r
IsSpace(c) == c = 32 \/ (c >= 9 /\ c <= 13)

\* tolower of the "C" locale
ToLower(c) == IF c >= 65 /\ c <= 90 THEN c + 32 ELSE c

\* strncpy(dst, src, n) followed by reading dst as a string whose byte n is NUL
Truncate(s, n) == IF Len(s) > n THEN SubSeq(s, 1, n) ELSE s

RECURSIVE StrCmpFrom(_, _, _)
StrCmpFrom(a, b, i) ==
    LET ca == IF i <= Len(a) THEN a[i] ELSE 0
        cb == IF i <= Len(b) THEN b[i] ELSE 0
    IN  IF ca # cb THEN ca - cb
        ELSE IF ca = 0 THEN 0
        ELSE StrCmpFrom(a, b, i + 1)

strcmp(a, b) == StrCmpFrom(a, b, 1)

compare_dates(a, b) == strcmp(a, b)

strcasecmp(a, b) ==
    StrCmpFrom([i \in 1..Len(a) |-> ToLower(a[i])], [i \in 1..Len(b) |-> ToLower(b[i])], 1)

\* the index of the first character at or after i that is not white space
RECURSIVE SkipSpace(_, _)
SkipSpace(s, i) ==
    IF i <= Len(s) /\ IsSpace(s[i]) THEN SkipSpace(s, i + 1) ELSE i

\* the digits of s from i on, at most w of them: <<value, index after them>>
RECURSIVE ScanDigits(_, _, _, _)
ScanDigits(s, i, w, acc) ==
    IF w > 0 /\ i <= Len(s) /\ IsDigit(s[i])
    THEN ScanDigits(s, i + 1, w - 1, acc * 10 + (s[i] - 48))
    ELSE <<acc, i>>

\* scanf's %<w>d at index i: white space skipped, an optional sign that counts
\* in the width, then digits; ok is FALSE when no digit is read
ScanInt(s, i, w) ==
    LET j == SkipSpace(s, i)
        signed == j <= Len(s) /\ (s[j] = 45 \/ s[j] = 43) /\ w > 1
        k == IF signed THEN j + 1 ELSE j
        r == ScanDigits(s, k, IF signed THEN w - 1 ELSE w, 0)
    IN  [ok |-> r[2] > k,
         val |-> IF signed /\ s[j] = 45 THEN 0 - r[1] ELSE r[1],
         next |-> r[2]]

\* atoi: strtol base 10, 0 when no digits
atoi(s) == ScanInt(s, 1, Len(s) + 2).val

\* the fraction digits of s from i on, as mills (three digits kept)
FracMills(s, i) ==
    LET d(k) == IF i + k <= Len(s) /\ (\A j \in i..(i + k) : IsDigit(s[j]))
                THEN s[i + k] - 48 ELSE 0
    IN  d(0) * 100 + d(1) * 10 + d(2)

\* atof on decimal notation [ws][sign]digits[.digits], in mills
atof(s) ==
    LET j == SkipSpace(s, 1)
        signed == j <= Len(s) /\ (s[j] = 45 \/ s[j] = 43)
        k == IF signed THEN j + 1 ELSE j
        r == ScanDigits(s, k, Len(s), 0)
        hasFrac == r[2] <= Len(s) /\ s[r[2]] = 46
        frac == IF hasFrac THEN FracMills(s, r[2] + 1) ELSE 0
        anyDigit == r[2] > k \/ (hasFrac /\ r[2] + 1 <= Len(s) /\ IsDigit(s[r[2] + 1]))
        mag == r[1] * 1000 + frac
    IN  IF ~anyDigit THEN 0
        ELSE IF signed /\ s[j] = 45 THEN 0 - mag ELSE mag

read_int(buf) == IF Len(buf) = 0 THEN 0 ELSE atoi(buf)

read_double(buf) == IF Len(buf) = 0 THEN 0 ELSE atof(buf)

\* the decimal digits of n >= 0
RECURSIVE Digits(_)
Digits(n) == IF n < 10 THEN <<48 + n>> ELSE Digits(n \div 10) \o <<48 + (n % 10)>>

\* zero padding on the left up to width w
RECURSIVE ZeroPad(_, _)
ZeroPad(s, w) == IF Len(s) >= w THEN s ELSE ZeroPad(<<48>> \o s, w)

\* printf's %0<w>d: the sign counts in the width
FmtInt(n, w) ==
    IF n < 0 THEN <<45>> \o ZeroPad(Digits(0 - n), w - 1) ELSE ZeroPad(Digits(n), w)

\* snprintf(buf, DATE_STRLEN, "%04d-%02d-%02d", y, m, d)
FmtDate(y, m, d) ==
    Truncate(FmtInt(y, 4) \o <<45>> \o FmtInt(m, 2) \o <<45>> \o FmtInt(d, 2),
             DATE_STRLEN - 1)

\* sscanf(s, "%4d-%2d-%2d", &y, &m, &d) == 3, with the range checks
parse_date(s) ==
    /\ Len(s) = 10
    /\ LET y == ScanInt(s, 1, 4)
       IN  /\ y.ok
           /\ y.next <= Len(s) /\ s[y.next] = 45
           /\ LET m == ScanInt(s, y.next + 1, 2)
              IN  /\ m.ok
                  /\ m.next <= Len(s) /\ s[m.next] = 45
                  /\ LET d == ScanInt(s, m.next + 1, 2)
                     IN  /\ d.ok
                         /\ ~(m.val < 1 \/ m.val > 12 \/ d.val < 1 \/ d.val > 31)

TYPE_EXPENSE == 0
TYPE_INCOME == 1

(***************************************************************************)
(* The stores.  A store's data is the sequence data[0..size-1]; the        *)
(* capacity grows on demand (ensure_*_capacity) and is not state the       *)
(* handlers read.                                                          *)
(***************************************************************************)
Category(id, name) == [id |-> id, name |-> name]

Transaction(id, date, amount, category_id, type, note) ==
    [id |-> id, date |-> date, amount |-> amount, category_id |-> category_id,
     type |-> type, note |-> note]

BudgetEntry(category_id, year, month, amount) ==
    [category_id |-> category_id, year |-> year, month |-> month, amount |-> amount]

\* static TxnStore txns = {NULL,0,0,1}, CatStore cats = {NULL,0,0,1},
\* BudgetStore budgets = {NULL,0,0}
InitTxns == [data |-> <<>>, next_id |-> 1]
InitCats == [data |-> <<>>, next_id |-> 1]
InitBudgets == [data |-> <<>>]

\* a file that does not exist, and a file of these bytes
NoFile == [exists |-> FALSE, bytes |-> <<>>]
File(bytes) == [exists |-> TRUE, bytes |-> bytes]

\* The program at its first menu prompt in a data directory that holds no
\* file: load_all found nothing to load.
Init ==
    /\ txns = InitTxns
    /\ cats = InitCats
    /\ budgets = InitBudgets
    /\ obfuscate_enabled = FALSE
    /\ obf_key = 0
    /\ disk = [cat |-> NoFile, txn |-> NoFile, bud |-> NoFile, csv |-> NoFile]
    /\ pc = "menu"
    /\ msg = ""
    /\ first_ids = [txn |-> 0, cat |-> 0]
    /\ exported = [cats |-> InitCats, txns |-> InitTxns]

\* history: the id of the first record a store ever held
FirstIdsNext ==
    first_ids' =
        [txn |-> IF first_ids.txn = 0 /\ Len(txns'.data) > 0
                 THEN txns'.data[1].id ELSE first_ids.txn,
         cat |-> IF first_ids.cat = 0 /\ Len(cats'.data) > 0
                 THEN cats'.data[1].id ELSE first_ids.cat]

\* a handler that works on the stores in memory only
InMemory ==
    /\ pc = "menu"
    /\ UNCHANGED <<obfuscate_enabled, obf_key, disk, pc, exported>>
    /\ FirstIdsNext

\* (mutant of SwapRemove) size-- without the move of the last element
DropLast(data, idx) == SubSeq(data, 1, Len(data) - 1)

\* data[idx] = data[size-1]; size--
SwapRemove(data, idx) ==
    SubSeq([data EXCEPT ![idx] = data[Len(data)]], 1, Len(data) - 1)

find_category_by_id(c, id) == \E i \in 1..Len(c.data) : c.data[i].id = id

\* the first index holding id, 0 when there is none (the code's -1)
find_category_index_by_id(c, id) ==
    IF find_category_by_id(c, id)
    THEN CHOOSE i \in 1..Len(c.data) :
            /\ c.data[i].id = id
            /\ \A j \in 1..(i - 1) : c.data[j].id # id
    ELSE 0

\* (mutant of find_txn_index_by_id) the first index whenever the id is present
FirstIndexIfPresent(t, id) ==
    IF \E i \in 1..Len(t.data) : t.data[i].id = id THEN 1 ELSE 0

find_txn_index_by_id(t, id) ==
    IF \E i \in 1..Len(t.data) : t.data[i].id = id
    THEN CHOOSE i \in 1..Len(t.data) :
            /\ t.data[i].id = id
            /\ \A j \in 1..(i - 1) : t.data[j].id # id
    ELSE 0

(***************************************************************************)
(* Categories.  Each handler takes the lines it reads from the terminal.   *)
(***************************************************************************)
\* the category store after add_category reads name
AddCategoryTo(c, name) ==
    IF Len(name) = 0 THEN c
    ELSE [data |-> Append(c.data, Category(c.next_id, Truncate(name, NAME_LEN - 1))),
          next_id |-> c.next_id + 1]

AddCategory(name) ==
    /\ Len(cats.data) < MaxCats
    /\ cats.next_id <= MaxId
    /\ cats' = AddCategoryTo(cats, name)
    /\ msg' = IF Len(name) = 0 THEN "Empty name aborted." ELSE "Added category"
    /\ UNCHANGED <<txns, budgets>>

EditCategory(idbuf, buf) ==
    LET id == read_int(idbuf)
        idx == find_category_index_by_id(cats, id)
    IN  IF idx = 0
        THEN /\ msg' = "Not found."
             /\ UNCHANGED <<txns, cats, budgets>>
        ELSE /\ cats' = IF Len(buf) # 0
                        THEN [cats EXCEPT !.data[idx].name = Truncate(buf, NAME_LEN - 1)]
                        ELSE cats
             /\ msg' = "Updated."
             /\ UNCHANGED <<txns, budgets>>

\* (mutant of CategoryUsed) compares the transaction's own id
CategoryUsedByTxnId(t, id) == \E i \in 1..Len(t.data) : t.data[i].id = id

\* whether a transaction references the category id
CategoryUsed(t, id) == \E i \in 1..Len(t.data) : t.data[i].category_id = id

RemoveCategory(idbuf) ==
    LET id == read_int(idbuf)
        idx == find_category_index_by_id(cats, id)
    IN  IF idx = 0
        THEN /\ msg' = "Not found."
             /\ UNCHANGED <<txns, cats, budgets>>
        ELSE IF CategoryUsed(txns, id)
        THEN /\ msg' = "Category used by transactions - cannot delete."
             /\ UNCHANGED <<txns, cats, budgets>>
        ELSE /\ cats' = [cats EXCEPT !.data = SwapRemove(@, idx)]
             /\ msg' = "Deleted."
             /\ UNCHANGED <<txns, budgets>>

(***************************************************************************)
(* Transactions.                                                           *)
(***************************************************************************)
\* today is the date localtime() gives, formatted by snprintf; name is the line
\* the nested add_category reads when no category exists
AddTransaction(today, datebuf, tpbuf, amtbuf, name, cidbuf, notebuf) ==
    LET id == txns.next_id
        line == Truncate(datebuf, DATE_STRLEN - 1)
        date == IF Len(line) = 0 THEN today ELSE line
        tp == read_int(tpbuf)
        type == IF tp # 1 THEN TYPE_EXPENSE ELSE TYPE_INCOME
        amount == read_double(amtbuf)
        cats1 == IF Len(cats.data) = 0 THEN AddCategoryTo(cats, name) ELSE cats
        cid == read_int(cidbuf)
        t == Transaction(id, date, amount, cid, type, Truncate(notebuf, MAX_NOTE - 1))
    IN  /\ Len(txns.data) < MaxTxns
        /\ txns.next_id <= MaxId
        /\ cats.next_id <= MaxId
        /\ UNCHANGED budgets
        /\ IF ~parse_date(date)
           THEN /\ msg' = "Invalid date format."
                /\ txns' = [txns EXCEPT !.next_id = id + 1]
                /\ UNCHANGED cats
           ELSE IF amount <= 0
           THEN /\ msg' = "Amount must be > 0."
                /\ txns' = [txns EXCEPT !.next_id = id + 1]
                /\ UNCHANGED cats
           ELSE IF Len(cats1.data) = 0
           THEN /\ msg' = "No categories - abort."
                /\ txns' = [txns EXCEPT !.next_id = id + 1]
                /\ cats' = cats1
           ELSE IF ~find_category_by_id(cats1, cid)
           THEN /\ msg' = "Invalid category."
                /\ txns' = [txns EXCEPT !.next_id = id + 1]
                /\ cats' = cats1
           ELSE /\ msg' = "Transaction added"
                /\ txns' = [data |-> Append(txns.data, t), next_id |-> id + 1]
                /\ cats' = cats1

\* the transaction t after edit_transaction read its five lines
EditedTxn(t, datebuf, tpbuf, amtbuf, cidbuf, notebuf) ==
    LET buf == Truncate(datebuf, DATE_STRLEN - 1)
        tp == read_int(tpbuf)
        a == read_double(amtbuf)
        cid == read_int(cidbuf)
        notebuf1 == Truncate(notebuf, MAX_NOTE - 1)
    IN  [id |-> t.id,
         date |-> IF Len(buf) # 0 /\ parse_date(buf) THEN buf ELSE t.date,
         type |-> IF tp = 0 \/ tp = 1 THEN tp ELSE t.type,
         amount |-> IF a > 0 THEN a ELSE t.amount,
         category_id |-> IF cid # 0 /\ find_category_by_id(cats, cid)
                         THEN cid ELSE t.category_id,
         note |-> IF Len(notebuf1) # 0 THEN notebuf1 ELSE t.note]

EditTransaction(idbuf, datebuf, tpbuf, amtbuf, cidbuf, notebuf) ==
    LET id == read_int(idbuf)
        idx == find_txn_index_by_id(txns, id)
    IN  IF idx = 0
        THEN /\ msg' = "Not found."
             /\ UNCHANGED <<txns, cats, budgets>>
        ELSE /\ txns' = [txns EXCEPT !.data[idx] =
                            EditedTxn(@, datebuf, tpbuf, amtbuf, cidbuf, notebuf)]
             /\ msg' = "Updated."
             /\ UNCHANGED <<cats, budgets>>

RemoveTransaction(idbuf) ==
    LET id == read_int(idbuf)
        idx == find_txn_index_by_id(txns, id)
    IN  IF idx = 0
        THEN /\ msg' = "Not found."
             /\ UNCHANGED <<txns, cats, budgets>>
        ELSE /\ txns' = [txns EXCEPT !.data = SwapRemove(@, idx)]
             /\ msg' = "Deleted."
             /\ UNCHANGED <<cats, budgets>>

(***************************************************************************)
(* Budgets.                                                                *)
(***************************************************************************)
\* (mutant of FindBudget) the year is not compared
FindBudgetAnyYear(b, cid, year, month) ==
    LET hit(i) == /\ b.data[i].category_id = cid
                  /\ b.data[i].month = month
    IN  IF \E i \in 1..Len(b.data) : hit(i)
        THEN CHOOSE i \in 1..Len(b.data) : hit(i) /\ \A j \in 1..(i - 1) : ~hit(j)
        ELSE 0

\* the index of the entry of the triple, 0 when there is none
FindBudget(b, cid, year, month) ==
    LET hit(i) == /\ b.data[i].category_id = cid
                  /\ b.data[i].year = year
                  /\ b.data[i].month = month
    IN  IF \E i \in 1..Len(b.data) : hit(i)
        THEN CHOOSE i \in 1..Len(b.data) : hit(i) /\ \A j \in 1..(i - 1) : ~hit(j)
        ELSE 0

SetBudget(cidbuf, yearbuf, monthbuf, amtbuf) ==
    LET cid == read_int(cidbuf)
        year == read_int(yearbuf)
        month == read_int(monthbuf)
        amt == read_double(amtbuf)
        i == FindBudget(budgets, cid, year, month)
    IN  /\ UNCHANGED <<txns, cats>>
        /\ IF ~find_category_by_id(cats, cid)
           THEN /\ msg' = "Invalid category."
                /\ UNCHANGED budgets
           ELSE IF month < 1 \/ month > 12
           THEN /\ msg' = "Invalid month."
                /\ UNCHANGED budgets
           ELSE IF amt < 0
           THEN /\ msg' = "Invalid amount."
                /\ UNCHANGED budgets
           ELSE IF i # 0
           THEN /\ msg' = "Updated budget."
                /\ budgets' = [budgets EXCEPT !.data[i].amount = amt]
           ELSE /\ Len(budgets.data) < MaxBudgets
                /\ msg' = "Budget set."
                /\ budgets' = [budgets EXCEPT !.data =
                                  Append(@, BudgetEntry(cid, year, month, amt))]

(***************************************************************************)
(* Aggregation.                                                            *)
(***************************************************************************)
\* the loop of total_for_category_month from index i on, total so far
RECURSIVE TotalFrom(_, _, _, _, _, _)
TotalFrom(data, i, cat_id, smin, smax, total) ==
    IF i > Len(data) THEN total
    ELSE LET t == data[i]
         IN  IF t.category_id # cat_id THEN TotalFrom(data, i + 1, cat_id, smin, smax, total)
             ELSE IF compare_dates(t.date, smin) < 0
             THEN TotalFrom(data, i + 1, cat_id, smin, smax, total)
             ELSE IF compare_dates(t.date, smax) >= 0
             THEN TotalFrom(data, i + 1, cat_id, smin, smax, total)
             ELSE IF t.type = TYPE_EXPENSE
             THEN TotalFrom(data, i + 1, cat_id, smin, smax, total + t.amount)
             ELSE TotalFrom(data, i + 1, cat_id, smin, smax, total - t.amount)

\* snprintf(s, DATE_STRLEN, "%04d-%02d-01", year, month)
FmtMonthStart(year, month) ==
    Truncate(FmtInt(year, 4) \o <<45>> \o FmtInt(month, 2) \o <<45, 48, 49>>,
             DATE_STRLEN - 1)

NextMonth(month) == IF month = 12 THEN 1 ELSE month + 1

\* (mutant of NextMonthYear) December does not move to the next year
SameYear(year, month) == year

NextMonthYear(year, month) == IF month = 12 THEN year + 1 ELSE year

total_for_category_month(t, cat_id, year, month) ==
    LET smin == FmtMonthStart(year, month)
        smax == FmtMonthStart(NextMonthYear(year, month), NextMonth(month))
    IN  TotalFrom(t.data, 1, cat_id, smin, smax, 0)

(***************************************************************************)
(* CSV export and import.  A file is the sequence of its characters.       *)
(***************************************************************************)
\* "id,date,type,amount,category,note\n"
CsvHeader ==
    <<105, 100, 44, 100, 97, 116, 101, 44, 116, 121, 112, 101, 44,
      97, 109, 111, 117, 110, 116, 44, 99, 97, 116, 101, 103, 111, 114, 121, 44,
      110, 111, 116, 101, 10>>

\* "UNKNOWN"
UnknownName == <<85, 78, 75, 78, 79, 87, 78>>

\* printf's %d
FmtD(n) == FmtInt(n, 1)

\* printf's %.2f of an amount in mills, rounded to the nearest hundredth
Fmt2(a) ==
    LET mag == IF a < 0 THEN 0 - a ELSE a
        cents == (mag + 5) \div 10
    IN  (IF a < 0 THEN <<45>> ELSE <<>>)
        \o Digits(cents \div 100) \o <<46>> \o ZeroPad(Digits(cents % 100), 2)

\* fprintf(f, "%d,%s,%d,%.2f,%s,%s\n", ...)
CsvLine(c, t) ==
    LET idx == find_category_index_by_id(c, t.category_id)
        cname == IF idx # 0 THEN c.data[idx].name ELSE UnknownName
    IN  FmtD(t.id) \o <<44>> \o t.date \o <<44>> \o FmtD(t.type) \o <<44>>
        \o Fmt2(t.amount) \o <<44>> \o cname \o <<44>> \o t.note \o <<10>>

RECURSIVE CsvLinesFrom(_, _, _)
CsvLinesFrom(c, data, i) ==
    IF i > Len(data) THEN <<>> ELSE CsvLine(c, data[i]) \o CsvLinesFrom(c, data, i + 1)

\* the content export_csv writes
ExportedCsv(c, t) == CsvHeader \o CsvLinesFrom(c, t.data, 1)

\* fgets(line, n, f) at offset pos: through the first newline, at most n-1 characters
RECURSIVE FgetsEnd(_, _, _)
FgetsEnd(s, i, left) ==
    IF i > Len(s) \/ left = 0 THEN i - 1
    ELSE IF s[i] = 10 THEN i
    ELSE FgetsEnd(s, i + 1, left - 1)

LINE_MAX == 1024

\* strtok: delimiters skipped from index i, then the token up to the next
\* delimiter; found is FALSE for NULL, next is where the following call resumes
RECURSIVE SkipDelim(_, _, _)
SkipDelim(s, i, delim) ==
    IF i <= Len(s) /\ s[i] = delim THEN SkipDelim(s, i + 1, delim) ELSE i

RECURSIVE TokenEnd(_, _, _)
TokenEnd(s, i, delim) ==
    IF i <= Len(s) /\ s[i] # delim THEN TokenEnd(s, i + 1, delim) ELSE i

strtok(s, i, delim) ==
    LET b == SkipDelim(s, i, delim)
        e == TokenEnd(s, b, delim)
    IN  [found |-> b <= Len(s),
         tok |-> IF b <= Len(s) THEN SubSeq(s, b, e - 1) ELSE <<>>,
         next |-> e + 1]

\* for (q = date; *q; ++q) if (*q == '\r' || *q == '\n') *q = 0
RECURSIVE TrimEnd(_, _)
TrimEnd(s, i) ==
    IF i > Len(s) THEN Len(s)
    ELSE IF s[i] = 13 \/ s[i] = 10 THEN i - 1
    ELSE TrimEnd(s, i + 1)

TrimNewline(s) == SubSeq(s, 1, TrimEnd(s, 1))

\* the id of the first category whose name equals name ignoring case, -1 if none
FindCategoryByName(c, name) ==
    LET hit(i) == strcasecmp(c.data[i].name, name) = 0
    IN  IF \E i \in 1..Len(c.data) : hit(i)
        THEN c.data[CHOOSE i \in 1..Len(c.data) : hit(i) /\ \A j \in 1..(i - 1) : ~hit(j)].id
        ELSE -1

\* What import_csv's loop body parses out of a line: ok is FALSE when a
\* strtok gives NULL or parse_date refuses the date, and the line is skipped.
ParseLine(line) ==
    LET t1 == strtok(line, 1, 44)
        t2 == strtok(line, t1.next, 44)
        t3 == strtok(line, t2.next, 44)
        t4 == strtok(line, t3.next, 44)
        t5 == strtok(line, t4.next, 10)
        date == TrimNewline(Truncate(t1.tok, DATE_STRLEN - 1))
    IN  [ok |-> t1.found /\ t2.found /\ t3.found /\ t4.found /\ parse_date(date),
         date |-> date,
         type |-> atoi(t2.tok),
         amount |-> atof(t3.tok),
         category |-> Truncate(t4.tok, NAME_LEN - 1),
         note |-> IF t5.found THEN Truncate(t5.tok, MAX_NOTE - 1) ELSE <<>>]

\* the while (fgets(...)) loop from offset pos on: the parsed lines, the first
\* line (the header) skipped
RECURSIVE ParsedFrom(_, _, _)
ParsedFrom(content, pos, lineno) ==
    IF pos > Len(content) THEN <<>>
    ELSE LET e == FgetsEnd(content, pos, LINE_MAX - 1)
         IN  (IF lineno = 1 THEN <<>> ELSE <<ParseLine(SubSeq(content, pos, e))>>)
             \o ParsedFrom(content, e + 1, lineno + 1)

ParsedCsv(content) == ParsedFrom(content, 1, 1)

\* The rest of the loop body: find or create the category, append the
\* transaction.  st holds the two stores; tail is what follows the ten
\* characters of t.date: t is an uninitialised local and
\* strncpy(t.date, date, DATE_STRLEN-1) sets no terminator, so byte 10 is
\* whatever the stack held.
ImportRow(st, row, tail) ==
    LET found == FindCategoryByName(st.cats, row.category)
        cats1 == IF found < 0
                 THEN [data |-> Append(st.cats.data,
                                       Category(st.cats.next_id, row.category)),
                       next_id |-> st.cats.next_id + 1]
                 ELSE st.cats
        cid == IF found < 0 THEN st.cats.next_id ELSE found
        t == Transaction(st.txns.next_id, row.date \o tail, row.amount, cid,
                         IF row.type = 1 THEN TYPE_INCOME ELSE TYPE_EXPENSE, row.note)
    IN  IF ~row.ok THEN st
        ELSE [cats |-> cats1,
              txns |-> [data |-> Append(st.txns.data, t),
                        next_id |-> st.txns.next_id + 1]]

RECURSIVE ImportRows(_, _, _, _)
ImportRows(st, rows, i, tail) ==
    IF i > Len(rows) THEN st ELSE ImportRows(ImportRow(st, rows[i], tail), rows, i + 1, tail)

\* import_csv of a file whose lines parse to rows
ImportParsed(rows, tail) ==
    LET st == ImportRows([cats |-> cats, txns |-> txns], rows, 1, tail)
    IN  /\ Len(st.txns.data) <= MaxTxns
        /\ Len(st.cats.data) <= MaxCats
        /\ st.txns.next_id <= MaxId + 1
        /\ st.cats.next_id <= MaxId + 1
        /\ txns' = st.txns
        /\ cats' = st.cats
        /\ msg' = "Import complete."
        /\ UNCHANGED budgets

ImportCsv(content, tail) == ImportParsed(ParsedCsv(content), tail)

(***************************************************************************)
(* The lines read from the terminal and the files imported.                *)
(***************************************************************************)
\* "" and "A"
NameInputs == {<<>>, <<65>>}

\* the ids the bounded counters can issue; the last may not be in a store
IdInputs == {FmtD(n) : n \in 1..MaxId}

\* "" (today) and "2024-13-01" (month 13)
DateInputs == {<<>>, FmtDate(2024, 13, 1)}

\* what localtime() and snprintf give for the default date
Todays == {FmtDate(2024, 12, 1)}

\* "-1" and "2.5"
AmountInputs == {<<45, 49>>, <<50, 46, 53>>}

\* what byte 10 of an imported t.date and the bytes after it may hold:
\* a NUL, or bytes that are not NUL
DateTails == {<<>>, <<127>>}

\* a date,type,amount,category,note line of an imported file
CsvRow(date, type, amount, category, note) ==
    date \o <<44>> \o type \o <<44>> \o amount \o <<44>> \o category \o <<44>>
    \o note \o <<10>>

\* 2024-12-01,0,2.5,a,
RowA == CsvRow(FmtDate(2024, 12, 1), <<48>>, <<50, 46, 53>>, <<97>>, <<>>)

\* 2024-12-01,0,-1,b,
RowB == CsvRow(FmtDate(2024, 12, 1), <<48>>, <<45, 49>>, <<98>>, <<>>)

\* 2024-13-01,0,2.5,a,
RowBadDate == CsvRow(FmtDate(2024, 13, 1), <<48>>, <<50, 46, 53>>, <<97>>, <<>>)

\* files of one and of two rows under a header line
CsvFiles ==
    {CsvHeader \o RowA, CsvHeader \o RowB, CsvHeader \o RowBadDate,
     CsvHeader \o RowA \o RowB, CsvHeader \o RowBadDate \o RowA}

\* what import_csv parses out of each of these files
CsvParsed == {ParsedCsv(content) : content \in CsvFiles}

(***************************************************************************)
(* The handlers that work on the transaction and category stores.          *)
(***************************************************************************)
NextCrud ==
    \/ \E name \in NameInputs : AddCategory(name) /\ InMemory
    \/ \E idbuf \in IdInputs, buf \in NameInputs : EditCategory(idbuf, buf) /\ InMemory
    \/ \E idbuf \in IdInputs : RemoveCategory(idbuf) /\ InMemory
    \/ \E today \in Todays, datebuf \in DateInputs, amtbuf \in AmountInputs,
          name \in NameInputs, cidbuf \in IdInputs :
            AddTransaction(today, datebuf, <<>>, amtbuf, name, cidbuf, <<>>) /\ InMemory
    \/ \E idbuf \in IdInputs, amtbuf \in AmountInputs, cidbuf \in IdInputs :
            EditTransaction(idbuf, <<>>, <<>>, amtbuf, cidbuf, <<>>) /\ InMemory
    \/ \E idbuf \in IdInputs : RemoveTransaction(idbuf) /\ InMemory
    \/ \E rows \in CsvParsed, tail \in DateTails : ImportParsed(rows, tail) /\ InMemory

SpecCrud == Init /\ [][NextCrud]_vars

(***************************************************************************)
(* Claims about the transaction and category stores (SpecCrud).            *)
(***************************************************************************)
CatIds(c) == {c.data[i].id : i \in 1..Len(c.data)}

CatSet(c) == {c.data[i] : i \in 1..Len(c.data)}

\* C1: every stored transaction's category_id is the id of a category that is
\* in the category store
C1_ReferentialIntegrity ==
    \A i \in 1..Len(txns.data) : txns.data[i].category_id \in CatIds(cats)

\* remove_category has just refused to delete a category in use
C1_Witness ==
    /\ msg = "Category used by transactions - cannot delete."
    /\ Len(txns.data) > 0
    /\ Len(cats.data) > 1

AddFailures ==
    {"Invalid date format.", "Amount must be > 0.", "No categories - abort.",
     "Invalid category."}

IsAddTransactionStep ==
    \E today \in Todays, datebuf \in DateInputs, amtbuf \in AmountInputs,
       name \in NameInputs, cidbuf \in IdInputs :
         AddTransaction(today, datebuf, <<>>, amtbuf, name, cidbuf, <<>>)

\* C2: an add_transaction that fails a validation changes neither the stores
\* nor the id counters
C2_FailedAddChangesNothing ==
    [][(IsAddTransactionStep /\ msg' \in AddFailures)
         => (txns' = txns /\ cats' = cats /\ budgets' = budgets)]_vars

\* C3: no stored transaction has an amount <= 0
C3_AmountsPositive == \A i \in 1..Len(txns.data) : txns.data[i].amount > 0

\* C4: remove_category of a category in use fails and changes no store;
\* remove_category of an existing category not in use succeeds, the id is gone
\* and every other category is still there, id and name unchanged
C4_RemoveCategory ==
    [][\A idbuf \in IdInputs :
          LET id == read_int(idbuf)
          IN  (RemoveCategory(idbuf) /\ id \in CatIds(cats)) =>
                IF CategoryUsed(txns, id)
                THEN /\ msg' = "Category used by transactions - cannot delete."
                     /\ cats' = cats
                     /\ txns' = txns
                ELSE /\ msg' = "Deleted."
                     /\ id \notin CatIds(cats')
                     /\ CatSet(cats') = {c \in CatSet(cats) : c.id # id}
                     /\ Len(cats'.data) = Len(cats.data) - 1]_vars

\* remove_category has just deleted a category that was not the last of the
\* array, while another category and a transaction remain
C4_Witness ==
    /\ msg = "Deleted."
    /\ Len(cats.data) = 1
    /\ cats.data[1].id = 2
    /\ cats.next_id = 3
    /\ Len(txns.data) > 0

(***************************************************************************)
(* The handlers that work on the budget store, with those that create and  *)
(* delete the categories it refers to.                                     *)
(***************************************************************************)
\* "2024", "2025"
YearInputs == {<<50, 48, 50, 52>>, <<50, 48, 50, 53>>}

\* "12", "13"
MonthInputs == {<<49, 50>>, <<49, 51>>}

\* "-1", "2.5", "4"
BudgetAmountInputs == {<<45, 49>>, <<50, 46, 53>>, <<52>>}

\* the file of the one line 2024-12-01,0,-1,b,
OneRowParsed == {ParsedCsv(CsvHeader \o RowB)}

NextBudget ==
    \/ \E name \in NameInputs : AddCategory(name) /\ InMemory
    \/ \E idbuf \in IdInputs : RemoveCategory(idbuf) /\ InMemory
    \/ \E cidbuf \in IdInputs, yearbuf \in YearInputs, monthbuf \in MonthInputs,
          amtbuf \in BudgetAmountInputs :
            SetBudget(cidbuf, yearbuf, monthbuf, amtbuf) /\ InMemory
    \/ \E rows \in OneRowParsed, tail \in DateTails : ImportParsed(rows, tail) /\ InMemory

SpecBudget == Init /\ [][NextBudget]_vars

(***************************************************************************)
(* Claims about the budget store (SpecBudget).                             *)
(***************************************************************************)
BudgetKey(e) == <<e.category_id, e.year, e.month>>

KeyCount(b, key) == Cardinality({i \in 1..Len(b.data) : BudgetKey(b.data[i]) = key})

C8_UniqueKeys ==
    \A i, j \in 1..Len(budgets.data) :
        BudgetKey(budgets.data[i]) = BudgetKey(budgets.data[j]) => i = j

\* C8: at most one entry per (category_id, year, month); a set_budget that
\* goes through leaves exactly one entry of its triple, with the amount just
\* given, and every other entry as it was
C8_SetBudgetUpserts ==
    /\ []C8_UniqueKeys
    /\ [][msg' \in {"Updated budget.", "Budget set."} =>
            \A cidbuf \in IdInputs, yearbuf \in YearInputs, monthbuf \in MonthInputs,
               amtbuf \in BudgetAmountInputs :
               LET key == <<read_int(cidbuf), read_int(yearbuf), read_int(monthbuf)>>
               IN  SetBudget(cidbuf, yearbuf, monthbuf, amtbuf) =>
                     /\ KeyCount(budgets', key) = 1
                     /\ \A i \in 1..Len(budgets'.data) :
                          BudgetKey(budgets'.data[i]) = key =>
                              budgets'.data[i].amount = read_double(amtbuf)
                     /\ \A i \in 1..Len(budgets.data) :
                          BudgetKey(budgets.data[i]) # key =>
                              budgets'.data[i] = budgets.data[i]]_vars

\* set_budget has just overwritten the amount of the first of two entries,
\* which now holds 4 while the other entry is of another year
C8_Witness ==
    /\ msg = "Updated budget."
    /\ Len(budgets.data) = 2
    /\ budgets.data[1].amount = 4000
    /\ budgets.data[2].category_id = budgets.data[1].category_id
    /\ budgets.data[2].month = budgets.data[1].month
    /\ budgets.data[2].year # budgets.data[1].year

\* C9: every budget entry refers to a category in the category store, has a
\* month in 1..12 and an amount >= 0
C9_BudgetsWellFormed ==
    \A i \in 1..Len(budgets.data) :
        /\ budgets.data[i].category_id \in CatIds(cats)
        /\ budgets.data[i].month \in 1..12
        /\ budgets.data[i].amount >= 0

(***************************************************************************)
(* The handlers that fill the transaction store with dates around a month  *)
(* boundary, and the monthly aggregation over it.                          *)
(***************************************************************************)
\* "" (today, 2024-12-01), "2025-01-01", "2024-11-30"
MonthDateInputs == {<<>>, FmtDate(2025, 1, 1), FmtDate(2024, 11, 30)}

\* "" (Expense) and "1" (Income)
TypeInputs == {<<>>, <<49>>}

\* "2.5", "4"
PositiveAmountInputs == {<<50, 46, 53>>, <<52>>}

NextTotal ==
    \/ \E name \in NameInputs : AddCategory(name) /\ InMemory
    \/ \E today \in Todays, datebuf \in MonthDateInputs, tpbuf \in TypeInputs,
          amtbuf \in PositiveAmountInputs, name \in NameInputs, cidbuf \in IdInputs :
            AddTransaction(today, datebuf, tpbuf, amtbuf, name, cidbuf, <<>>) /\ InMemory
    \/ \E idbuf \in IdInputs : RemoveTransaction(idbuf) /\ InMemory
    \/ \E rows \in OneRowParsed, tail \in DateTails : ImportParsed(rows, tail) /\ InMemory

SpecTotal == Init /\ [][NextTotal]_vars

(***************************************************************************)
(* Claims about total_for_category_month (SpecTotal).                      *)
(***************************************************************************)
\* the (year, month) pairs asked for: November and December 2024, January 2025
QueryMonths == {<<2024, 11>>, <<2024, 12>>, <<2025, 1>>}

\* date lies in [year-month-01, first day of the next month), the next month
\* of December being January of year + 1; dates are ordered as strings
InMonth(date, year, month) ==
    LET lo == FmtDate(year, month, 1)
        hi == IF month = 12 THEN FmtDate(year + 1, 1, 1) ELSE FmtDate(year, month + 1, 1)
    IN  strcmp(date, lo) >= 0 /\ strcmp(date, hi) < 0

RECURSIVE SumAmounts(_, _)
SumAmounts(data, I) ==
    IF I = {} THEN 0
    ELSE LET i == CHOOSE k \in I : TRUE
         IN  data[i].amount + SumAmounts(data, I \ {i})

\* the transactions of data of a category, a month and a type
Matching(data, cat, year, month, type) ==
    {i \in 1..Len(data) : /\ data[i].category_id = cat
                          /\ InMonth(data[i].date, year, month)
                          /\ data[i].type = type}

\* data without the elements at the indices in I
RECURSIVE SeqWithout(_, _, _)
SeqWithout(data, I, i) ==
    IF i > Len(data) THEN <<>>
    ELSE (IF i \in I THEN <<>> ELSE <<data[i]>>) \o SeqWithout(data, I, i + 1)

\* C10: the total of a category and month is the sum of its Expense amounts
\* minus the sum of its Income amounts over the half-open month interval, and
\* an Expense and an Income of the same amount in the same category and month
\* contribute nothing to it
C10_TotalIsNet ==
    \A cat \in 1..MaxId, q \in QueryMonths :
        /\ total_for_category_month(txns, cat, q[1], q[2])
             = SumAmounts(txns.data, Matching(txns.data, cat, q[1], q[2], TYPE_EXPENSE))
               - SumAmounts(txns.data, Matching(txns.data, cat, q[1], q[2], TYPE_INCOME))
        /\ \A i \in Matching(txns.data, cat, q[1], q[2], TYPE_EXPENSE),
              j \in Matching(txns.data, cat, q[1], q[2], TYPE_INCOME) :
              txns.data[i].amount = txns.data[j].amount =>
                total_for_category_month(txns, cat, q[1], q[2])
                  = total_for_category_month(
                        [data |-> SeqWithout(txns.data, {i, j}, 1)], cat, q[1], q[2])

\* an Expense and an Income of 4 of category 1 were added, both on the first
\* day of December 2024: the December total is 0
C10_Witness ==
    /\ msg = "Transaction added"
    /\ Len(txns.data) = 2
    /\ txns.data[1].type = TYPE_EXPENSE /\ txns.data[2].type = TYPE_INCOME
    /\ txns.data[1].amount = 4000 /\ txns.data[2].amount = 4000
    /\ txns.data[1].category_id = 1 /\ txns.data[2].category_id = 1
    /\ txns.data[1].date = FmtDate(2024, 12, 1) /\ txns.data[2].date = FmtDate(2024, 12, 1)
    /\ total_for_category_month(txns, 1, 2024, 12) = 0


(***************************************************************************)
(* Persistence: the three binary files are the arrays of C structs, byte   *)
(* for byte.  sizeof and the offsets are those of the usual LP64 build:    *)
(* Category 68 bytes (id 0, name 4); Transaction 288 bytes (id 0, date 4,  *)
(* one byte of padding 15, amount 16, category_id 24, type 28, note 32);   *)
(* BudgetEntry 24 bytes (category_id 0, year 4, month 8, four bytes of     *)
(* padding 12, amount 16).                                                 *)
(***************************************************************************)
SizeofCategory == 4 + NAME_LEN
SizeofTransaction == 4 + DATE_STRLEN + 1 + 8 + 4 + 4 + MAX_NOTE
SizeofBudgetEntry == 4 + 4 + 4 + 4 + 8

\* the capacity of catbuf and bbuf in load_all
LoadBufCount == 1024

\* an int in memory: four bytes, little-endian, two's complement
Int32Bytes(n) == [i \in 1..4 |-> (n \div (256 ^ (i - 1))) % 256]

BytesInt32(b) ==
    b[1] + 256 * b[2] + 65536 * b[3]
    + 16777216 * (IF b[4] >= 128 THEN b[4] - 256 ELSE b[4])

\* a double in memory: eight bytes.  The amount is kept in mills, and its
\* bytes are those of the 64-bit two's complement number of mills; the files
\* are written and read with memcpy, fwrite and fread, which copy bytes
\* whatever they encode.
DoubleBytes(a) == Int32Bytes(a) \o [i \in 1..4 |-> IF a < 0 THEN 255 ELSE 0]

BytesDouble(b) == BytesInt32(SubSeq(b, 1, 4))

\* a char[n] that holds the string s: the NUL and the bytes after it are 0;
\* a string of n or more characters fills the array and has no NUL in it
CharArray(s, n) == [i \in 1..n |-> IF i <= Len(s) THEN s[i] ELSE 0]

\* the string a char[n] holds: up to the first NUL, or the whole array
StrLen(b) ==
    IF \E i \in 1..Len(b) : b[i] = 0
    THEN (CHOOSE i \in 1..Len(b) : b[i] = 0 /\ \A j \in 1..(i - 1) : b[j] # 0) - 1
    ELSE Len(b)

ArrayString(b) == SubSeq(b, 1, StrLen(b))

CategoryBytes(c) == Int32Bytes(c.id) \o CharArray(c.name, NAME_LEN)

BytesCategory(b) ==
    Category(BytesInt32(SubSeq(b, 1, 4)), ArrayString(SubSeq(b, 5, 4 + NAME_LEN)))

TransactionBytes(t) ==
    Int32Bytes(t.id) \o CharArray(t.date, DATE_STRLEN) \o <<0>> \o DoubleBytes(t.amount)
    \o Int32Bytes(t.category_id) \o Int32Bytes(t.type) \o CharArray(t.note, MAX_NOTE)

BytesTransaction(b) ==
    Transaction(BytesInt32(SubSeq(b, 1, 4)),
                ArrayString(SubSeq(b, 5, 4 + DATE_STRLEN)),
                BytesDouble(SubSeq(b, 17, 24)),
                BytesInt32(SubSeq(b, 25, 28)),
                BytesInt32(SubSeq(b, 29, 32)),
                ArrayString(SubSeq(b, 33, 32 + MAX_NOTE)))

BudgetEntryBytes(e) ==
    Int32Bytes(e.category_id) \o Int32Bytes(e.year) \o Int32Bytes(e.month)
    \o <<0, 0, 0, 0>> \o DoubleBytes(e.amount)

BytesBudgetEntry(b) ==
    BudgetEntry(BytesInt32(SubSeq(b, 1, 4)), BytesInt32(SubSeq(b, 5, 8)),
                BytesInt32(SubSeq(b, 9, 12)), BytesDouble(SubSeq(b, 17, 24)))

\* the bytes of an array of records, from record i on
RECURSIVE CategoriesBytes(_, _)
CategoriesBytes(data, i) ==
    IF i > Len(data) THEN <<>>
    ELSE CategoryBytes(data[i]) \o CategoriesBytes(data, i + 1)

RECURSIVE TransactionsBytes(_, _)
TransactionsBytes(data, i) ==
    IF i > Len(data) THEN <<>>
    ELSE TransactionBytes(data[i]) \o TransactionsBytes(data, i + 1)

RECURSIVE BudgetsBytes(_, _)
BudgetsBytes(data, i) ==
    IF i > Len(data) THEN <<>>
    ELSE BudgetEntryBytes(data[i]) \o BudgetsBytes(data, i + 1)

\* the first count records of sz bytes each
BytesArray(bytes, count, sz, BytesRecord(_)) ==
    [i \in 1..count |-> BytesRecord(SubSeq(bytes, (i - 1) * sz + 1, i * sz))]

\* x | y on bytes
RECURSIVE BitOr(_, _)
BitOr(x, y) ==
    IF x = 0 THEN y
    ELSE IF y = 0 THEN x
    ELSE (IF x % 2 = 1 \/ y % 2 = 1 THEN 1 ELSE 0) + 2 * BitOr(x \div 2, y \div 2)

\* x ^ y on bytes
RECURSIVE BitXor(_, _)
BitXor(x, y) ==
    IF x = 0 THEN y
    ELSE IF y = 0 THEN x
    ELSE ((x + y) % 2) + 2 * BitXor(x \div 2, y \div 2)

obfuscate_buffer(enabled, key, buf) ==
    IF ~enabled \/ key = 0 THEN buf
    ELSE [i \in 1..Len(buf) |-> BitXor(buf[i], key)]

\* the file save_binary_file leaves
save_binary_file(enabled, key, bytes) == File(obfuscate_buffer(enabled, key, bytes))

\* the records load_binary_file copies out of a file: none when the file
\* does not open or is empty, else the whole records read, max_count at most
load_binary_file(enabled, key, file, max_count, sz, BytesRecord(_)) ==
    IF ~file.exists \/ Len(file.bytes) = 0 THEN <<>>
    ELSE LET tmp == obfuscate_buffer(enabled, key, file.bytes)
             got == Len(tmp) \div sz
             count == IF got > max_count THEN max_count ELSE got
         IN  BytesArray(tmp, count, sz, BytesRecord)

\* the largest id of an array, 0 at least
RECURSIVE MaxIdFrom(_, _, _)
MaxIdFrom(data, i, maxid) ==
    IF i > Len(data) THEN maxid
    ELSE MaxIdFrom(data, i + 1, IF data[i].id > maxid THEN data[i].id ELSE maxid)

\* the stores load_all leaves when it starts from the static initialisers.
\* The transaction file is read whole, without a buffer of LoadBufCount.
LoadedCats(enabled, key, d) ==
    LET data == load_binary_file(enabled, key, d.cat, LoadBufCount, SizeofCategory,
                                 BytesCategory)
    IN  IF Len(data) > 0
        THEN [data |-> data, next_id |-> MaxIdFrom(data, 1, 0) + 1]
        ELSE InitCats

LoadedTxns(enabled, key, d) ==
    LET data == IF ~d.txn.exists \/ Len(d.txn.bytes) = 0 THEN <<>>
                ELSE LET tmp == obfuscate_buffer(enabled, key, d.txn.bytes)
                     IN  BytesArray(tmp, Len(tmp) \div SizeofTransaction,
                                    SizeofTransaction, BytesTransaction)
    IN  IF d.txn.exists /\ Len(d.txn.bytes) > 0
        THEN [data |-> data, next_id |-> MaxIdFrom(data, 1, 0) + 1]
        ELSE InitTxns

LoadedBudgets(enabled, key, d) ==
    LET data == load_binary_file(enabled, key, d.bud, LoadBufCount, SizeofBudgetEntry,
                                 BytesBudgetEntry)
    IN  IF Len(data) > 0 THEN [data |-> data] ELSE InitBudgets

\* the files save_all leaves: a store that is empty is not written, and its
\* file stays as it was
save_all(enabled, key, d) ==
    [d EXCEPT
       !.cat = IF Len(cats.data) > 0
               THEN save_binary_file(enabled, key, CategoriesBytes(cats.data, 1))
               ELSE @,
       !.txn = IF Len(txns.data) > 0
               THEN save_binary_file(enabled, key, TransactionsBytes(txns.data, 1))
               ELSE @,
       !.bud = IF Len(budgets.data) > 0
               THEN save_binary_file(enabled, key, BudgetsBytes(budgets.data, 1))
               ELSE @]

\* menu choice 0: interactive_menu calls save_all and returns, main calls
\* save_all again and returns
Exit ==
    /\ pc = "menu"
    /\ pc' = "exited"
    /\ disk' = save_all(obfuscate_enabled, obf_key,
                        save_all(obfuscate_enabled, obf_key, disk))
    /\ msg' = "Goodbye."
    /\ UNCHANGED <<txns, cats, budgets, obfuscate_enabled, obf_key, first_ids, exported>>

\* the program is run again in the same directory: the statics are
\* initialised (obfuscation off, key 0) and main calls load_all
Start ==
    /\ pc = "exited"
    /\ pc' = "menu"
    /\ obfuscate_enabled' = FALSE
    /\ obf_key' = 0
    /\ cats' = LoadedCats(FALSE, 0, disk)
    /\ txns' = LoadedTxns(FALSE, 0, disk)
    /\ budgets' = LoadedBudgets(FALSE, 0, disk)
    /\ msg' = ""
    /\ FirstIdsNext
    /\ UNCHANGED <<disk, exported>>

\* menu choice 9 with a blank path: export_csv("export.csv")
ExportCsv ==
    /\ pc = "menu"
    /\ disk' = [disk EXCEPT !.csv = File(ExportedCsv(cats, txns))]
    /\ exported' = [cats |-> cats, txns |-> txns]
    /\ msg' = "Exported to export.csv"
    /\ UNCHANGED <<txns, cats, budgets, obfuscate_enabled, obf_key, pc, first_ids>>

\* menu choice 10 with the path of that file: import_csv("export.csv")
ImportExported(tail) ==
    /\ pc = "menu"
    /\ IF disk.csv.exists
       THEN ImportCsv(disk.csv.bytes, tail)
       ELSE /\ msg' = "Open failed."
            /\ UNCHANGED <<txns, cats, budgets>>
    /\ FirstIdsNext
    /\ UNCHANGED <<obfuscate_enabled, obf_key, disk, pc, exported>>

(***************************************************************************)
(* The program over its runs in one data directory: handlers on the three  *)
(* stores, exit (which saves) and the next run (which loads).              *)
(***************************************************************************)
\* "4"
OneAmountInputs == {<<52>>}

\* "1"
OneIdInputs == {FmtD(1)}

\* "A"
OneNameInputs == {<<65>>}

Next ==
    \/ \E name \in OneNameInputs : AddCategory(name) /\ InMemory
    \/ \E idbuf \in IdInputs : RemoveCategory(idbuf) /\ InMemory
    \/ \E today \in Todays, datebuf \in DateInputs, amtbuf \in OneAmountInputs,
          name \in OneNameInputs, cidbuf \in OneIdInputs :
            AddTransaction(today, datebuf, <<>>, amtbuf, name, cidbuf, <<>>) /\ InMemory
    \/ \E idbuf \in IdInputs : RemoveTransaction(idbuf) /\ InMemory
    \/ \E cidbuf \in OneIdInputs, yearbuf \in YearInputs, amtbuf \in OneAmountInputs :
            SetBudget(cidbuf, yearbuf, <<49, 50>>, amtbuf) /\ InMemory
    \/ Exit
    \/ Start

Spec == Init /\ [][Next]_vars

\* C5: when the program is started after an exit that saved with obfuscation
\* off, each store holds the records that were in memory at the exit, in the
\* same order, whatever files the directory held before
C5_SaveLoadRoundTrip ==
    [][(pc = "exited" /\ ~obfuscate_enabled /\ Start)
         => /\ cats'.data = cats.data
            /\ txns'.data = txns.data
            /\ budgets'.data = budgets.data]_vars

IdsUnique(data) ==
    \A i, j \in 1..Len(data) : i # j => data[i].id # data[j].id

\* C7: in each of the two stores the ids are distinct, the next id is greater
\* than every id present, and the first id the store ever held is 1
C7_Ids ==
    /\ IdsUnique(txns.data)
    /\ IdsUnique(cats.data)
    /\ \A i \in 1..Len(txns.data) : txns.data[i].id < txns.next_id
    /\ \A i \in 1..Len(cats.data) : cats.data[i].id < cats.next_id
    /\ first_ids.txn \in {0, 1}
    /\ first_ids.cat \in {0, 1}

(***************************************************************************)
(* Export and import of the exported file.                                 *)
(***************************************************************************)
\* "Food"
Food == <<70, 111, 111, 100>>

\* "lunch"
Lunch == <<108, 117, 110, 99, 104>>

\* "42.5" and "4"
CsvAmountInputs == {<<52, 50, 46, 53>>, <<52>>}

\* "" (Expense) and "1" (Income)
CsvTypeInputs == {<<>>, <<49>>}

NextCsv ==
    \/ \E name \in {Food} : AddCategory(name) /\ InMemory
    \/ \E idbuf \in IdInputs : RemoveCategory(idbuf) /\ InMemory
    \/ \E today \in Todays, tpbuf \in CsvTypeInputs, amtbuf \in CsvAmountInputs,
          cidbuf \in OneIdInputs :
            AddTransaction(today, FmtDate(2024, 3, 15), tpbuf, amtbuf, Food, cidbuf, Lunch)
            /\ InMemory
    \/ \E idbuf \in IdInputs : RemoveTransaction(idbuf) /\ InMemory
    \/ ExportCsv
    \/ \E tail \in DateTails : ImportExported(tail)

SpecCsv == Init /\ [][NextCsv]_vars

\* the name export_csv writes for a category id
ExportedName(c, id) ==
    LET idx == find_category_index_by_id(c, id)
    IN  IF idx # 0 THEN c.data[idx].name ELSE UnknownName

\* C6: import_csv of the file export_csv wrote, into empty stores, gives one
\* transaction for each exported transaction, with its date, type, amount to
\* two decimals and note, in a category of the same name
C6_ExportImportRoundTrip ==
    [][\A tail \in DateTails :
          (/\ disk.csv.exists
           /\ disk.csv.bytes = ExportedCsv(exported.cats, exported.txns)
           /\ cats.data = <<>>
           /\ txns.data = <<>>
           /\ ImportExported(tail))
          => /\ Len(txns'.data) = Len(exported.txns.data)
             /\ \A i \in 1..Len(exported.txns.data) :
                  LET old == exported.txns.data[i]
                      new == txns'.data[i]
                  IN  /\ new.date = old.date
                      /\ new.type = old.type
                      /\ Fmt2(new.amount) = Fmt2(old.amount)
                      /\ new.note = old.note
                      /\ ExportedName(cats', new.category_id)
                           = ExportedName(exported.cats, old.category_id)]_vars

(***************************************************************************)
(* Editing transactions.  The lines are what each read_line returns.       *)
(***************************************************************************)
\* "", "2025-01-01" and "2024-13-01" (month 13)
EditDateInputs == {<<>>, FmtDate(2025, 1, 1), FmtDate(2024, 13, 1)}

\* "", "-1" and "4"
EditAmountInputs == {<<>>, <<45, 49>>, <<52>>}

\* "" and "2"
EditCategoryInputs == {<<>>, FmtD(2)}

\* "" and "n"
EditNoteInputs == {<<>>, <<110>>}

NextEdit ==
    \/ \E name \in OneNameInputs : AddCategory(name) /\ InMemory
    \/ \E today \in Todays, tpbuf \in TypeInputs, amtbuf \in PositiveAmountInputs,
          cidbuf \in OneIdInputs :
            AddTransaction(today, <<>>, tpbuf, amtbuf, <<65>>, cidbuf, <<>>) /\ InMemory
    \/ \E idbuf \in IdInputs, datebuf \in EditDateInputs, tpbuf \in TypeInputs,
          amtbuf \in EditAmountInputs, cidbuf \in EditCategoryInputs,
          notebuf \in EditNoteInputs :
            EditTransaction(idbuf, datebuf, tpbuf, amtbuf, cidbuf, notebuf) /\ InMemory

SpecEdit == Init /\ [][NextEdit]_vars

\* C11: edit_transaction on an existing id replaces a field only when a value
\* is supplied for it and is valid as in add_transaction; a field whose line
\* is blank or invalid keeps its value, and the id and every other
\* transaction are unchanged
C11_EditReplacesSuppliedOnly ==
    [][\A idbuf \in IdInputs, datebuf \in EditDateInputs, tpbuf \in TypeInputs,
          amtbuf \in EditAmountInputs, cidbuf \in EditCategoryInputs,
          notebuf \in EditNoteInputs :
          LET idx == find_txn_index_by_id(txns, read_int(idbuf))
          IN  (idx # 0 /\ EditTransaction(idbuf, datebuf, tpbuf, amtbuf, cidbuf, notebuf))
              => LET old == txns.data[idx]
                     new == txns'.data[idx]
                 IN  /\ Len(txns'.data) = Len(txns.data)
                     /\ \A i \in 1..Len(txns.data) : i # idx => txns'.data[i] = txns.data[i]
                     /\ new.id = old.id
                     /\ new.date = IF datebuf # <<>> /\ parse_date(datebuf)
                                   THEN datebuf ELSE old.date
                     /\ tpbuf = <<>> => new.type = old.type
                     /\ new.amount = IF amtbuf # <<>> /\ read_double(amtbuf) > 0
                                     THEN read_double(amtbuf) ELSE old.amount
                     /\ new.category_id =
                          IF cidbuf # <<>> /\ find_category_by_id(cats, read_int(cidbuf))
                          THEN read_int(cidbuf) ELSE old.category_id
                     /\ new.note = IF notebuf # <<>> THEN notebuf ELSE old.note]_vars

(***************************************************************************)
(* The dates parse_date lets into the transaction store.                   *)
(***************************************************************************)
\* "2024- 3- 5": sscanf's %d skips white space before the number
DateSpaces == <<50, 48, 50, 52, 45, 32, 51, 45, 32, 53>>

\* "2024-1-1zz": sscanf stops after the third number, the rest is not looked at
DateShort == <<50, 48, 50, 52, 45, 49, 45, 49, 122, 122>>

\* "", "2024-01-02", "2024- 3- 5" and "2024-1-1zz"
StoredDateInputs == {<<>>, FmtDate(2024, 1, 2), DateSpaces, DateShort}

NextDate ==
    \/ \E name \in OneNameInputs : AddCategory(name) /\ InMemory
    \/ \E today \in Todays, datebuf \in StoredDateInputs, amtbuf \in OneAmountInputs,
          cidbuf \in OneIdInputs :
            AddTransaction(today, datebuf, <<>>, amtbuf, <<65>>, cidbuf, <<>>) /\ InMemory
    \/ \E idbuf \in IdInputs, datebuf \in StoredDateInputs :
            EditTransaction(idbuf, datebuf, <<>>, <<>>, <<>>, <<>>) /\ InMemory
    \/ \E idbuf \in IdInputs : RemoveTransaction(idbuf) /\ InMemory

SpecDate == Init /\ [][NextDate]_vars

\* DDDD-DD-DD with month 01..12 and day 01..31
IsPaddedDate(s) ==
    /\ Len(s) = 10
    /\ \A i \in {1, 2, 3, 4, 6, 7, 9, 10} : IsDigit(s[i])
    /\ s[5] = 45 /\ s[8] = 45
    /\ (s[6] - 48) * 10 + (s[7] - 48) \in 1..12
    /\ (s[9] - 48) * 10 + (s[10] - 48) \in 1..31

\* the day a stored date stands for, as parse_date reads it: year, month, day
DateValue(s) ==
    LET y == ScanInt(s, 1, 4)
        m == ScanInt(s, y.next + 1, 2)
        d == ScanInt(s, m.next + 1, 2)
    IN  y.val * 10000 + m.val * 100 + d.val

\* C12: every stored date is ten characters of the zero-padded form with
\* month 01..12 and day 01..31, and strcmp orders the stored dates as the
\* calendar does
C12_StoredDatesPadded ==
    /\ \A i \in 1..Len(txns.data) : IsPaddedDate(txns.data[i].date)
    /\ \A i, j \in 1..Len(txns.data) :
         (compare_dates(txns.data[i].date, txns.data[j].date) < 0)
           <=> (DateValue(txns.data[i].date) < DateValue(txns.data[j].date))

(***************************************************************************)
(* File obfuscation.                                                       *)
(***************************************************************************)
\* menu choice 12.  ans and k are the lines read when obfuscation is off;
\* when it is on nothing is read.
toggle_obfuscation(ans, k) ==
    LET ans1 == Truncate(ans, 7)
        k1 == Truncate(k, 7)
    IN  /\ pc = "menu"
        /\ IF ~obfuscate_enabled
           THEN IF Len(ans1) > 0 /\ (ans1[1] = 121 \/ ans1[1] = 89)
                THEN IF Len(k1) = 0
                     THEN /\ msg' = "No key - aborted."
                          /\ UNCHANGED <<obfuscate_enabled, obf_key>>
                     ELSE /\ obf_key' = k1[1]
                          /\ obfuscate_enabled' = TRUE
                          /\ msg' = "Obfuscation enabled."
                ELSE UNCHANGED <<obfuscate_enabled, obf_key, msg>>
           ELSE /\ obfuscate_enabled' = FALSE
                /\ obf_key' = 0
                /\ msg' = "Obfuscation disabled."
        /\ UNCHANGED <<txns, cats, budgets, disk, pc, first_ids, exported>>

\* "y" and "n"
AnswerInputs == {<<121>>, <<110>>}

\* "", "K" and the single byte 0xFF
KeyInputs == {<<>>, <<75>>, <<255>>}

\* Each store is written with save_binary_file and read back as load_all
\* reads its file, under the obfuscation setting of the moment.
SaveThenLoad ==
    LET d == [disk EXCEPT
                !.cat = save_binary_file(obfuscate_enabled, obf_key,
                                         CategoriesBytes(cats.data, 1)),
                !.txn = save_binary_file(obfuscate_enabled, obf_key,
                                         TransactionsBytes(txns.data, 1)),
                !.bud = save_binary_file(obfuscate_enabled, obf_key,
                                         BudgetsBytes(budgets.data, 1))]
    IN  /\ pc = "menu"
        /\ disk' = d
        /\ cats' = LoadedCats(obfuscate_enabled, obf_key, d)
        /\ txns' = LoadedTxns(obfuscate_enabled, obf_key, d)
        /\ budgets' = LoadedBudgets(obfuscate_enabled, obf_key, d)
        /\ msg' = "Loaded."
        /\ FirstIdsNext
        /\ UNCHANGED <<obfuscate_enabled, obf_key, pc, exported>>

NextCodec ==
    \/ \E name \in OneNameInputs : AddCategory(name) /\ InMemory
    \/ \E today \in Todays, amtbuf \in OneAmountInputs, cidbuf \in OneIdInputs :
            AddTransaction(today, <<>>, <<>>, amtbuf, <<65>>, cidbuf, <<110>>) /\ InMemory
    \/ \E cidbuf \in OneIdInputs, yearbuf \in YearInputs, amtbuf \in OneAmountInputs :
            SetBudget(cidbuf, yearbuf, <<49, 50>>, amtbuf) /\ InMemory
    \/ \E ans \in AnswerInputs, k \in KeyInputs : toggle_obfuscation(ans, k)
    \/ SaveThenLoad

SpecCodec == Init /\ [][NextCodec]_vars

\* C13: a store saved and loaded under the same obfuscation setting, on with
\* a non-zero key or off, comes back as the records saved, for each of the
\* three files
C13_SameKeyRoundTrip ==
    [][SaveThenLoad =>
         /\ cats'.data = cats.data
         /\ txns'.data = txns.data
         /\ budgets'.data = budgets.data]_vars

\* the three stores, none empty, have just been saved under a non-zero key
\* and loaded: the files hold bytes that differ from the records' own
C13_Witness ==
    /\ msg = "Loaded."
    /\ obfuscate_enabled /\ obf_key # 0
    /\ Len(cats.data) > 0 /\ Len(txns.data) > 0 /\ Len(budgets.data) > 0
    /\ disk.cat.bytes # CategoriesBytes(cats.data, 1)
    /\ disk.txn.bytes # TransactionsBytes(txns.data, 1)
    /\ disk.bud.bytes # BudgetsBytes(budgets.data, 1)
    /\ disk.txn.bytes = obfuscate_buffer(TRUE, obf_key, TransactionsBytes(txns.data, 1))

(***************************************************************************)
(* The program over its runs, with the obfuscation toggle.                 *)
(***************************************************************************)
\* "2024"
OneYearInputs == {<<50, 48, 50, 52>>}

NextLife ==
    \/ \E name \in OneNameInputs : AddCategory(name) /\ InMemory
    \/ \E today \in Todays, amtbuf \in OneAmountInputs, cidbuf \in OneIdInputs :
            AddTransaction(today, <<>>, <<>>, amtbuf, <<65>>, cidbuf, <<110>>) /\ InMemory
    \/ \E cidbuf \in OneIdInputs, yearbuf \in OneYearInputs, amtbuf \in OneAmountInputs :
            SetBudget(cidbuf, yearbuf, <<49, 50>>, amtbuf) /\ InMemory
    \/ \E ans \in AnswerInputs, k \in KeyInputs : toggle_obfuscation(ans, k)
    \/ Exit
    \/ Start

SpecLife == Init /\ [][NextLife]_vars

\* C14: when the program is started after an exit, every store that the exit
\* saved holds the records that were in memory at the exit, also when
\* obfuscation was on with a non-zero key at the exit
C14_NextStartRestores ==
    [][(pc = "exited" /\ Start)
         => /\ Len(cats.data) > 0 => cats'.data = cats.data
            /\ Len(txns.data) > 0 => txns'.data = txns.data
            /\ Len(budgets.data) > 0 => budgets'.data = budgets.data]_vars

(***************************************************************************)
(* Removing transactions (SpecCrud).                                       *)
(***************************************************************************)
TxnIds(t) == {t.data[i].id : i \in 1..Len(t.data)}

TxnSet(t) == {t.data[i] : i \in 1..Len(t.data)}

\* C15: remove_transaction of an id in the store removes that transaction and
\* no other: one record fewer, the remaining records are the former ones
\* without the one of that id, and txns.next_id is unchanged; with an id not
\* in the store the transaction store is unchanged
C15_RemoveTransaction ==
    [][\A idbuf \in IdInputs :
          LET id == read_int(idbuf)
          IN  RemoveTransaction(idbuf) =>
                IF id \in TxnIds(txns)
                THEN /\ Len(txns'.data) = Len(txns.data) - 1
                     /\ TxnSet(txns') = {t \in TxnSet(txns) : t.id # id}
                     /\ id \notin TxnIds(txns')
                     /\ txns'.next_id = txns.next_id
                ELSE txns' = txns]_vars

\* remove_transaction has just deleted the first of two transactions: the
\* store first held id 1, only ids 1 and 2 were issued, the one left is id 2,
\* and no category was ever deleted
C15_Witness ==
    /\ msg = "Deleted."
    /\ cats.next_id = Len(cats.data) + 1
    /\ first_ids.txn = 1
    /\ txns.next_id = 3
    /\ Len(txns.data) = 1
    /\ txns.data[1].id = 2
====
